---- MODULE Spec2Model ----
\* A model of package callers (src/callers.go): Frame, Frame.String, String
\* and Callers, together with the parts of the Go runtime and of
\* path/filepath that Callers relies on.
\*
\* Strings are sequences of one-character strings, so that searching,
\* slicing and formatting are computed the way the code computes them.
\* A program counter is a natural number; the symbol table (Valid, Resolve)
\* maps it to file, line and function.  A stack is a sequence of program
\* counters, innermost call first.
EXTENDS Integers, Sequences, FiniteSets, TLC

VARIABLES
    sep,        \* filepath.Separator of the platform the program was built for
    files,      \* symbol table: program counter -> source file path
    stack,      \* per thread: the program counters of its call stack, innermost first
    loc,        \* per thread: the local variables of its call of Callers
    fmtTrace,   \* argument "trace" of String
    indent,     \* argument "indent" of String
    out,        \* result of String
    formatted   \* TRUE once String has returned

vars == <<sep, files, stack, loc, fmtTrace, indent, out, formatted>>

----------------------------------------------------------------------------
\* Bounds

MaxPC == 15          \* program counters are 1..MaxPC
MaxSkip == 3         \* largest skip argument tried
MaxAlloc == 12       \* the largest slice length make() can allocate (scaled down)
MaxTokens == 6       \* longest file path, in tokens
MaxTrace == 3        \* longest trace handed to String
MaxConcStack == 2    \* deepest stack of a thread in the concurrent specification

\* Program constants
DefaultDepth == 10   \* callers.go:69
SrcLen == 5          \* callers.go:84, len("/src/")

Threads == {"t1", "t2"}

----------------------------------------------------------------------------
\* Strings

SrcDir == <<"/", "s", "r", "c", "/">>
Digits == <<"0", "1", "2", "3", "4", "5", "6", "7", "8", "9">>

Min(a, b) == IF a < b THEN a ELSE b
Max(a, b) == IF a > b THEN a ELSE b

\* s[from:] with Go's 0-based index
SliceFrom(s, from) == SubSeq(s, from + 1, Len(s))

\* strings.LastIndex(s, sub): 0-based index of the last occurrence, or -1
LastIndex(s, sub) ==
    LET hits == {i \in 0..(Len(s) - Len(sub)) : SubSeq(s, i + 1, i + Len(sub)) = sub}
    IN  IF hits = {} THEN -1 ELSE CHOOSE i \in hits : \A j \in hits : j <= i

\* the decimal digits of a natural number, as %d prints them
RECURSIVE NatDigits(_)
NatDigits(n) ==
    IF n < 10 THEN <<Digits[n + 1]>>
    ELSE NatDigits(n \div 10) \o <<Digits[(n % 10) + 1]>>

\* fmt's %d verb
Itoa(n) == IF n < 0 THEN <<"-">> \o NatDigits(0 - n) ELSE NatDigits(n)

----------------------------------------------------------------------------
\* path/filepath

\* os.IsPathSeparator: '/' everywhere, and also '\' where it is the Separator
IsPathSeparator(c) == c = "/" \/ c = sep

\* filepath.ToSlash: replace every Separator by '/'
ToSlash(path) ==
    IF sep = "/" THEN path
    ELSE [i \in 1..Len(path) |-> IF path[i] = sep THEN "/" ELSE path[i]]

\* filepath.Base, step 1: strip trailing separators
RECURSIVE StripTrailing(_)
StripTrailing(path) ==
    IF Len(path) > 0 /\ IsPathSeparator(path[Len(path)])
    THEN StripTrailing(SubSeq(path, 1, Len(path) - 1))
    ELSE path

\* a plausible slip: the first separator is searched instead of the last
BaseAfterFirst(path) ==
    IF path = <<>> THEN <<".">>
    ELSE LET p == StripTrailing(path)
             seps == {i \in 1..Len(p) : IsPathSeparator(p[i])}
             q == IF seps = {} THEN p
                  ELSE SubSeq(p, (CHOOSE i \in seps : \A j \in seps : i <= j) + 1, Len(p))
         IN  IF q = <<>> THEN <<sep>> ELSE q

\* filepath.Base: the last element of path (none of the paths of this model
\* carries a volume name)
Base(path) ==
    IF path = <<>> THEN <<".">>
    ELSE LET p == StripTrailing(path)
             seps == {i \in 1..Len(p) : IsPathSeparator(p[i])}
             q == IF seps = {} THEN p
                  ELSE SubSeq(p, (CHOOSE i \in seps : \A j \in seps : j <= i) + 1, Len(p))
         IN  IF q = <<>> THEN <<sep>> ELSE q

\* callers.go:82-87
NormalizeFile(rawFile) ==
    LET file == ToSlash(rawFile)
        n == LastIndex(file, SrcDir)
    IN  IF n > 0 THEN SliceFrom(file, n + SrcLen) ELSE Base(file)

----------------------------------------------------------------------------
\* The runtime: symbol table, runtime.Callers, runtime.CallersFrames

PCRuntimeCallers == 1   \* the frame of runtime.Callers itself
PCCallers == 2          \* the frame of callers.Callers
PCMain == 3             \* the outermost user frame
UserPCs == PCMain..MaxPC

\* program counters findfunc() cannot resolve
InvalidPCs == {6, 11}
Valid(pc) == pc \in 1..MaxPC /\ pc \notin InvalidPCs

ZeroFrame == [File |-> <<>>, Line |-> 0, Function |-> <<>>]

\* runtime.Frame for a resolvable program counter
Resolve(pc) ==
    [File |-> files[pc], Line |-> 10 * pc + 1, Function |-> <<"f">> \o Itoa(pc)]

\* what runtime.Callers sees: its own frame, the frame of callers.Callers,
\* then the calling thread's frames
FullStack(stk) == <<PCRuntimeCallers, PCCallers>> \o stk

\* a plausible slip: skip is not applied
RuntimeCallersNoSkip(stk, skip, pc) ==
    LET full == FullStack(stk)
        n == Max(0, Min(Len(full), Len(pc)))
    IN  [pc |-> [i \in 1..Len(pc) |-> IF i <= n THEN full[i] ELSE pc[i]], n |-> n]

\* runtime.Callers(skip, pc): fills pc with the return program counters of
\* the calling thread, 0 identifying the frame of runtime.Callers itself
RuntimeCallers(stk, skip, pc) ==
    LET full == FullStack(stk)
        n == Max(0, Min(Len(full) - skip, Len(pc)))
    IN  [pc |-> [i \in 1..Len(pc) |-> IF i <= n THEN full[skip + i] ELSE pc[i]], n |-> n]

\* runtime.CallersFrames
CallersFrames(callers) == [callers |-> callers, frames |-> <<>>]

\* Frames.Next, first half: resolve program counters until two frames are
\* buffered or none is left; unresolvable ones are passed over
RECURSIVE FillFrames(_)
FillFrames(ci) ==
    IF Len(ci.frames) >= 2 \/ ci.callers = <<>> THEN ci
    ELSE LET pc == Head(ci.callers)
             rest == Tail(ci.callers)
         IN  IF ~Valid(pc) THEN FillFrames([callers |-> rest, frames |-> ci.frames])
             ELSE FillFrames([callers |-> rest, frames |-> Append(ci.frames, Resolve(pc))])

\* Frames.Next: pops one frame; more tells whether a further call will
\* return a valid frame
FramesNext(ci) ==
    LET c == FillFrames(ci)
    IN  IF c.frames = <<>> THEN [frame |-> ZeroFrame, more |-> FALSE, fs |-> c]
        ELSE [frame |-> Head(c.frames),
              more |-> Len(c.frames) > 1,
              fs |-> [c EXCEPT !.frames = Tail(@)]]

----------------------------------------------------------------------------
\* Callers (callers.go:64-94), one step per statement group

\* a plausible slip: clamping to 1
NormSkipOne(skip) == IF skip < 0 THEN 1 ELSE skip

\* callers.go:65-67
NormSkip(skip) == IF skip < 0 THEN 0 ELSE skip

\* a plausible slip: another default
NormDepthNine(depth) == IF depth <= 0 THEN DefaultDepth - 1 ELSE depth

\* callers.go:68-70
NormDepth(depth) == IF depth <= 0 THEN DefaultDepth ELSE depth

\* a plausible slip: a buffer larger than depth
MakePCWide(depth) == [i \in 1..(depth + 2) |-> 0]

\* callers.go:73, make([]uintptr, depth)
MakePC(depth) == [i \in 1..depth |-> 0]

\* the local variables on entry; argSkip and argDepth remember the arguments
Enter(skip, depth) ==
    [at |-> "clamp", skip |-> skip, depth |-> depth,
     argSkip |-> skip, argDepth |-> depth,
     pc |-> <<>>, n |-> 0, fs |-> CallersFrames(<<>>),
     f |-> ZeroFrame, ok |-> FALSE, trace |-> <<>>, isNil |-> TRUE]

Idle == [Enter(0, 0) EXCEPT !.at = "idle"]

\* callers.go:78-91, the loop body
LoopBody(l) ==
    LET frame == [File |-> NormalizeFile(l.f.File), Line |-> l.f.Line, Function |-> l.f.Function]
        nx == FramesNext(l.fs)
    IN  [l EXCEPT !.trace = Append(l.trace, frame),
                  !.fs = nx.fs, !.f = nx.frame, !.ok = nx.more]

Step(l, stk) ==
    CASE l.at = "clamp" ->
            [l EXCEPT !.skip = NormSkip(l.skip), !.depth = NormDepth(l.depth), !.at = "make"]
      [] l.at = "make" ->
            \* make panics when the length is out of range
            IF l.depth < 0 \/ l.depth > MaxAlloc THEN [l EXCEPT !.at = "panic"]
            ELSE [l EXCEPT !.trace = <<>>, !.isNil = FALSE, !.pc = MakePC(l.depth), !.at = "callers"]
      [] l.at = "callers" ->
            LET r == RuntimeCallers(stk, l.skip, l.pc)
            IN  [l EXCEPT !.pc = r.pc, !.n = r.n, !.at = "frames"]
      [] l.at = "frames" ->
            LET nx == FramesNext(CallersFrames(SubSeq(l.pc, 1, l.n)))
            IN  [l EXCEPT !.fs = nx.fs, !.f = nx.frame, !.ok = nx.more, !.at = "loop"]
      [] l.at = "loop" ->
            IF l.ok THEN LoopBody(l) ELSE [l EXCEPT !.at = "done"]
      [] OTHER -> l

Running(l) == l.at \in {"clamp", "make", "callers", "frames", "loop"}

\* the whole call
RECURSIVE Run(_, _)
Run(l, stk) == IF Running(l) THEN Run(Step(l, stk), stk) ELSE l

Callers(stk, skip, depth) == Run(Enter(skip, depth), stk)

----------------------------------------------------------------------------
\* Frame.String and String (callers.go:45-58)

Lit_File == <<"F", "i", "l", "e", ":", " ">>
Lit_Line == <<" ", "L", "i", "n", "e", ":", " ">>
Lit_Function == <<" ", "F", "u", "n", "c", "t", "i", "o", "n", ":", " ">>
Newline == <<"\n">>

\* a plausible slip: no space before "Line:"
FrameStringTight(f) ==
    Lit_File \o f.File \o Tail(Lit_Line) \o Itoa(f.Line) \o Lit_Function \o f.Function

\* callers.go:45-47
FrameString(f) ==
    Lit_File \o f.File \o Lit_Line \o Itoa(f.Line) \o Lit_Function \o f.Function

\* callers.go:53-56, the loop over trace from index i on, writing to buf
RECURSIVE StringLoop(_, _, _, _)
StringLoop(trace, ind, i, buf) ==
    IF i > Len(trace) THEN buf
    ELSE StringLoop(trace, ind, i + 1, (buf \o ind) \o (FrameString(trace[i]) \o Newline))

\* callers.go:51-58
String(trace, ind) == StringLoop(trace, ind, 1, <<>>)

----------------------------------------------------------------------------
\* Inputs

\* the file paths of the sequential and the concurrent specification
SampleFile(pc) ==
    CASE pc = PCRuntimeCallers -> <<"/", "g", "/", "s", "r", "c", "/", "r", "/", "e">>
      [] pc = PCCallers -> <<"/", "p", "/", "s", "r", "c", "/", "c", "/", "c">>
      [] pc % 3 = 0 -> <<"/", "p", "/", "s", "r", "c", "/", "m", "/", "m">>
      [] pc % 3 = 1 -> <<"/", "h", "/", "m">>
      [] OTHER -> <<"m">>

Skips == (0 - 2)..MaxSkip
Depths == (0 - 1)..(MaxAlloc + 1)

\* file paths: up to MaxTokens tokens, the last one a name, no two
\* separators in front
NameTokens == {<<"a">>, <<"s", "r", "c">>}
Tokens == NameTokens \cup {<<"/">>, <<"\\">>}

RECURSIVE Flatten(_)
Flatten(ts) == IF ts = <<>> THEN <<>> ELSE Head(ts) \o Flatten(Tail(ts))

IsSepToken(t) == t = <<"/">> \/ t = <<"\\">>

TokenSeqs ==
    UNION {[1..k -> Tokens] : k \in 1..MaxTokens}

Paths ==
    {Flatten(ts) : ts \in {s \in TokenSeqs :
        /\ s[Len(s)] \in NameTokens
        /\ ~(Len(s) >= 2 /\ IsSepToken(s[1]) /\ IsSepToken(s[2]))}}

\* the program counter whose file is the drawn path
PCProbe == 4
PathSkips == {0, 2}
PathDepths == {2, 4}

\* the frames and indents handed to String
FmtFrames ==
    { [File |-> <<"a", ".", "e", "x", "t">>, Line |-> 5, Function |-> <<"f">>],
      [File |-> <<"b", "/", "c">>, Line |-> 120, Function |-> <<"p", ".", "g">>],
      [File |-> <<>>, Line |-> 0, Function |-> <<>>] }
Indents == { <<>>, <<"-", ">", " ">>, <<" ", " ">> }
FmtTraces == UNION {[1..k -> FmtFrames] : k \in 0..MaxTrace}

----------------------------------------------------------------------------
\* Actions

NoPanic == \A t \in Threads : loc[t].at # "panic"

\* the call graph of the program: the function at pc calls the one at pc+1,
\* and the one at pc+2 where pc+1 is a call the program can leave out
OptionalPCs == InvalidPCs \cup {8}
Callees(pc) == {pc + 1} \cup (IF pc + 1 \in OptionalPCs THEN {pc + 2} ELSE {})

\* thread t, not inside Callers, calls a function; the trace of its last
\* call of Callers is out of scope by then
Push(t, pc, bound) ==
    /\ NoPanic
    /\ ~Running(loc[t])
    /\ Len(stack[t]) < bound
    /\ pc \in UserPCs \cap Callees(Head(stack[t]))
    /\ stack' = [stack EXCEPT ![t] = <<pc>> \o @]
    /\ loc' = [loc EXCEPT ![t] = Idle]
    /\ UNCHANGED <<sep, files, fmtTrace, indent, out, formatted>>

\* the innermost function of thread t returns
Pop(t) ==
    /\ NoPanic
    /\ ~Running(loc[t])
    /\ Len(stack[t]) > 1
    /\ stack' = [stack EXCEPT ![t] = Tail(@)]
    /\ loc' = [loc EXCEPT ![t] = Idle]
    /\ UNCHANGED <<sep, files, fmtTrace, indent, out, formatted>>

\* thread t calls Callers(skip, depth) and runs it to its end
CallCallers(t, skip, depth) ==
    /\ NoPanic
    /\ ~Running(loc[t])
    /\ loc' = [loc EXCEPT ![t] = Callers(stack[t], skip, depth)]
    /\ UNCHANGED <<sep, files, stack, fmtTrace, indent, out, formatted>>

\* thread t enters Callers(skip, depth)
EnterCallers(t, skip, depth) ==
    /\ NoPanic
    /\ ~Running(loc[t])
    /\ loc' = [loc EXCEPT ![t] = Enter(skip, depth)]
    /\ UNCHANGED <<sep, files, stack, fmtTrace, indent, out, formatted>>

\* a plausible slip: the buffer pc is a package-level variable
ThreadStepSharedPC(t) ==
    /\ Running(loc[t])
    /\ LET new == Step(loc[t], stack[t])
       IN  loc' = [u \in Threads |->
                     IF u = t THEN new
                     ELSE IF Running(loc[u]) THEN [loc[u] EXCEPT !.pc = new.pc, !.n = new.n]
                     ELSE loc[u]]
    /\ UNCHANGED <<sep, files, stack, fmtTrace, indent, out, formatted>>

\* thread t takes one step of Callers; every variable of Callers is local
ThreadStep(t) ==
    /\ Running(loc[t])
    /\ loc' = [loc EXCEPT ![t] = Step(loc[t], stack[t])]
    /\ UNCHANGED <<sep, files, stack, fmtTrace, indent, out, formatted>>

\* String(fmtTrace, indent)
CallString ==
    /\ ~formatted
    /\ out' = String(fmtTrace, indent)
    /\ formatted' = TRUE
    /\ UNCHANGED <<sep, files, stack, loc, fmtTrace, indent>>

----------------------------------------------------------------------------
\* Specifications

InitCommon ==
    /\ loc = [t \in Threads |-> Idle]
    /\ stack = [t \in Threads |-> <<PCMain>>]
    /\ fmtTrace = <<>>
    /\ indent = <<>>
    /\ out = <<>>
    /\ formatted = FALSE

\* one thread, calls of Callers on every stack the call graph allows
Init ==
    /\ InitCommon
    /\ sep = "/"
    /\ files = [pc \in 1..MaxPC |-> SampleFile(pc)]

Next ==
    \/ \E pc \in UserPCs : Push("t1", pc, MaxPC)
    \/ Pop("t1")
    \/ \E skip \in Skips, depth \in Depths : CallCallers("t1", skip, depth)

Spec == Init /\ [][Next]_vars

\* file paths: the frame at PCProbe carries a drawn path, on either platform
InitPath ==
    /\ loc = [t \in Threads |-> Idle]
    /\ stack = [t \in Threads |-> <<PCProbe, PCMain>>]
    /\ fmtTrace = <<>>
    /\ indent = <<>>
    /\ out = <<>>
    /\ formatted = FALSE
    /\ sep \in {"/", "\\"}
    /\ \E p \in Paths : files = [pc \in 1..MaxPC |-> IF pc = PCProbe THEN p ELSE SampleFile(pc)]

NextPath ==
    \E skip \in PathSkips, depth \in PathDepths : CallCallers("t1", skip, depth)

SpecPath == InitPath /\ [][NextPath]_vars

\* String on drawn traces and indents
InitString ==
    /\ loc = [t \in Threads |-> Idle]
    /\ stack = [t \in Threads |-> <<PCMain>>]
    /\ sep = "/"
    /\ files = [pc \in 1..MaxPC |-> SampleFile(pc)]
    /\ fmtTrace \in FmtTraces
    /\ indent \in Indents
    /\ out = <<>>
    /\ formatted = FALSE

NextString == CallString

SpecString == InitString /\ [][NextString]_vars

\* several threads, each stepping through its own call of Callers
ConcSkips == {0, 2}
ConcDepths == {0, 3}

NextConc ==
    \E t \in Threads :
        \/ \E pc \in UserPCs : Push(t, pc, MaxConcStack)
        \/ Pop(t)
        \/ \E skip \in ConcSkips, depth \in ConcDepths : EnterCallers(t, skip, depth)
        \/ ThreadStep(t)

SpecConc == Init /\ [][NextConc]_vars

----------------------------------------------------------------------------
\* Properties

Done(l) == l.at = "done"

\* the frames the iterator of CallersFrames(pc[:n]) yields, first to last
RECURSIVE ResolveAll(_)
ResolveAll(pcs) ==
    IF pcs = <<>> THEN <<>>
    ELSE (IF Valid(Head(pcs)) THEN <<Resolve(Head(pcs))>> ELSE <<>>) \o ResolveAll(Tail(pcs))

Yielded(l) == ResolveAll(SubSeq(l.pc, 1, l.n))

\* the depth a call works with, as the claims word it
EffectiveDepth(depth) == IF depth > 0 THEN depth ELSE 10

DropFirst(s) == IF s = <<>> THEN <<>> ELSE Tail(s)
IsPrefix(s, r) == Len(s) <= Len(r) /\ SubSeq(r, 1, Len(s)) = s

ContainsSrc(p) == \E i \in 0..(Len(p) - 5) : SubSeq(p, i + 1, i + 5) = SrcDir

\* r is what follows the last "/src/" of p
IsAfterLastSrc(p, r) ==
    \E i \in 0..(Len(p) - 5) :
        /\ SubSeq(p, i + 1, i + 5) = SrcDir
        /\ \A j \in (i + 1)..(Len(p) - 5) : SubSeq(p, j + 1, j + 5) # SrcDir
        /\ r = SubSeq(p, i + 6, Len(p))

\* r is the final component of p: what follows its last "/", all of p if it has none
IsFinalComponent(p, r) ==
    /\ \A i \in 1..Len(r) : r[i] # "/"
    /\ Len(r) <= Len(p)
    /\ r = SubSeq(p, Len(p) - Len(r) + 1, Len(p))
    /\ (Len(r) < Len(p) => p[Len(p) - Len(r)] = "/")

\* C1: a finished call of Callers has returned one Frame per frame the
\* iterator yields, the last one included, in order, each with the Line and
\* the Function of the yielded frame.
C1_OneFramePerYieldedFrame ==
    \A t \in Threads :
        Done(loc[t]) =>
            LET y == Yielded(loc[t])
                tr == loc[t].trace
            IN  /\ Len(tr) = Len(y)
                /\ \A i \in 1..Min(Len(tr), Len(y)) :
                       tr[i].Line = y[i].Line /\ tr[i].Function = y[i].Function

\* C2: every returned Frame whose runtime file path contains "/src/" after
\* separator conversion, at whatever position, has as File the part after
\* the last "/src/".
C2_FileAfterLastSrc ==
    \A t \in Threads :
        Done(loc[t]) =>
            \A i \in 1..Len(loc[t].trace) :
                LET conv == ToSlash(Yielded(loc[t])[i].File)
                IN  ContainsSrc(conv) => IsAfterLastSrc(conv, loc[t].trace[i].File)

\* the stack holds at least skip + depth + 1 frames and every one of them
\* resolves, so that neither Callers(skip, depth) nor Callers(skip+1, depth)
\* runs out of frames
DeepEnough(t) ==
    LET full == FullStack(stack[t])
        l == loc[t]
    IN  /\ Len(full) >= l.skip + l.depth + 1
        /\ \A i \in 1..Len(full) : Valid(full[i])

\* C3 as stated: on a stack deep enough, Callers(skip+1, depth) equals
\* Callers(skip, depth) with its first frame removed.
C3_SkipPlusOneIsTail ==
    \A t \in Threads :
        (Done(loc[t]) /\ loc[t].argSkip >= 0 /\ DeepEnough(t)) =>
            Callers(stack[t], loc[t].argSkip + 1, loc[t].argDepth).trace = DropFirst(loc[t].trace)

\* C3 as amended: for skip >= 0 and a first captured frame the runtime
\* resolves, Callers(skip, depth) with its first frame removed is a prefix of
\* Callers(skip+1, depth), which has at most one frame more; the two are
\* equal when the stack has at most skip + depth frames.
C3_SkipPlusOneExtendsTail ==
    \A t \in Threads :
        LET l == loc[t]
            next == Callers(stack[t], l.argSkip + 1, l.argDepth).trace
        IN  (Done(l) /\ l.argSkip >= 0 /\ (l.n = 0 \/ Valid(l.pc[1]))) =>
                /\ IsPrefix(DropFirst(l.trace), next)
                /\ Len(next) <= Len(DropFirst(l.trace)) + 1
                /\ (Len(FullStack(stack[t])) <= l.skip + l.depth => next = DropFirst(l.trace))

\* a call whose successor Callers(skip+1, depth) has the tail and one frame more
C3_Witness ==
    \E t \in Threads :
        /\ Done(loc[t]) /\ loc[t].argSkip >= 0 /\ Len(loc[t].trace) >= 2
        /\ Valid(loc[t].pc[1])
        /\ Len(Callers(stack[t], loc[t].argSkip + 1, loc[t].argDepth).trace) = Len(loc[t].trace)

\* C4: a finished call of Callers(skip, depth) has returned at most depth
\* frames, at most 10 when depth <= 0.
C4_AtMostDepthFrames ==
    \A t \in Threads :
        Done(loc[t]) => Len(loc[t].trace) <= EffectiveDepth(loc[t].argDepth)

\* a call on a stack with more frames than it may collect
C4_Witness ==
    \E t \in Threads :
        /\ Done(loc[t]) /\ loc[t].argDepth > 1
        /\ Len(FullStack(stack[t])) > loc[t].skip + loc[t].depth
        /\ Len(loc[t].trace) = loc[t].argDepth - 1

\* C5: a call with depth <= 0 ends as Callers(skip, 10) does on the same
\* stack, with the same frames.
C5_DepthDefaultsToTen ==
    \A t \in Threads :
        (~Running(loc[t]) /\ loc[t].at # "idle" /\ loc[t].argDepth <= 0) =>
            LET ten == Callers(stack[t], loc[t].argSkip, 10)
            IN  loc[t].at = ten.at /\ loc[t].trace = ten.trace

\* a call with depth <= 0 on a stack of more than skip + 10 frames
C5_Witness ==
    \E t \in Threads :
        /\ Done(loc[t]) /\ loc[t].argDepth <= 0
        /\ Len(FullStack(stack[t])) > loc[t].skip + 10
        /\ Len(loc[t].trace) >= 8

\* C6: a call with skip < 0 ends as Callers(0, depth) does on the same
\* stack, with the same frames.
C6_NegativeSkipIsZero ==
    \A t \in Threads :
        (~Running(loc[t]) /\ loc[t].at # "idle" /\ loc[t].argSkip < 0) =>
            LET zero == Callers(stack[t], 0, loc[t].argDepth)
            IN  loc[t].at = zero.at /\ loc[t].trace = zero.trace

\* a call with skip < 0 that returned frames
C6_Witness ==
    \E t \in Threads :
        Done(loc[t]) /\ loc[t].argSkip < 0 /\ Len(loc[t].trace) >= 2

\* C7: every returned Frame whose runtime file path does not contain "/src/"
\* after separator conversion has as File the final component of the path.
C7_FileIsFinalComponent ==
    \A t \in Threads :
        Done(loc[t]) =>
            \A i \in 1..Len(loc[t].trace) :
                LET conv == ToSlash(Yielded(loc[t])[i].File)
                IN  ~ContainsSrc(conv) => IsFinalComponent(conv, loc[t].trace[i].File)

\* a returned Frame for a path of several components, written with '\',
\* without "/src/"
C7_Witness ==
    \E t \in Threads :
        /\ Done(loc[t])
        /\ \E i \in 1..Len(loc[t].trace) :
               LET raw == Yielded(loc[t])[i].File
               IN  /\ raw = files[PCProbe]
                   /\ ~ContainsSrc(ToSlash(raw))
                   /\ \E k \in 1..Len(raw) : raw[k] = "\\"
                   /\ Len(loc[t].trace[i].File) < Len(raw)

\* the decimal numeral of n: digits without a leading zero whose value is n
DecValue(d) == IF Len(d) = 1 THEN d[1]
               ELSE IF Len(d) = 2 THEN 10 * d[1] + d[2]
               ELSE 100 * d[1] + 10 * d[2] + d[3]
Numeral(n) ==
    LET d == CHOOSE x \in UNION {[1..k -> 0..9] : k \in 1..3} :
                 DecValue(x) = n /\ (Len(x) > 1 => x[1] # 0)
    IN  [i \in 1..Len(d) |-> Digits[d[i] + 1]]

\* indent, "File: <file> Line: <line> Function: <function>", newline
ExpectedLine(f, ind) ==
    ind \o Lit_File \o f.File \o Lit_Line \o Numeral(f.Line) \o Lit_Function \o f.Function \o Newline

RECURSIVE ExpectedLines(_, _)
ExpectedLines(trace, ind) ==
    IF trace = <<>> THEN <<>>
    ELSE ExpectedLine(Head(trace), ind) \o ExpectedLines(Tail(trace), ind)

\* C8: String(trace, indent) is, frame after frame, indent, then
\* "File: <file> Line: <line> Function: <function>", then a newline: it has
\* Len(trace) lines, and is empty for an empty trace.
C8_StringIsOneLinePerFrame ==
    formatted =>
        /\ out = ExpectedLines(fmtTrace, indent)
        /\ Cardinality({i \in 1..Len(out) : out[i] = "\n"}) = Len(fmtTrace)
        /\ (fmtTrace = <<>> => out = <<>>)

\* String of the one frame {a.ext, 5, f} with indent "-> " is
\* "-> File: a.ext Line: 5 Function: f\n"
C8_Witness ==
    /\ formatted
    /\ indent = <<"-", ">", " ">>
    /\ fmtTrace = <<[File |-> <<"a", ".", "e", "x", "t">>, Line |-> 5, Function |-> <<"f">>]>>
    /\ out = <<"-", ">", " ", "F", "i", "l", "e", ":", " ", "a", ".", "e", "x", "t", " ",
               "L", "i", "n", "e", ":", " ", "5", " ",
               "F", "u", "n", "c", "t", "i", "o", "n", ":", " ", "f", "\n">>

\* C9: whatever the interleaving, a finished call has returned the frames
\* the call returns when it runs alone on its thread's stack.
C9_TraceAsWhenRunAlone ==
    \A t \in Threads :
        Done(loc[t]) =>
            /\ loc[t].trace = Callers(stack[t], loc[t].argSkip, loc[t].argDepth).trace
            /\ ~loc[t].isNil

\* a call that finished with frames while another thread, on another stack,
\* was inside its own call, past runtime.Callers
C9_Witness ==
    \E t, u \in Threads :
        /\ t # u
        /\ Done(loc[t]) /\ Len(loc[t].trace) >= 2
        /\ loc[u].at = "loop" /\ loc[u].trace # <<>>
        /\ stack[t] # stack[u]
        /\ loc[u].trace[1] # loc[t].trace[1]

\* C10: Callers is total: no call ends in a panic, and a finished call has
\* returned a non-nil sequence, the empty one when the stack has no more
\* than skip frames.
C10_CallersIsTotal ==
    \A t \in Threads :
        /\ loc[t].at # "panic"
        /\ Done(loc[t]) =>
               /\ ~loc[t].isNil
               /\ (Len(FullStack(stack[t])) <= loc[t].skip => loc[t].trace = <<>>)

====
